---- MODULE Spec2Model ----
(***************************************************************************)
(* A model of github-profilegen-go (src/main.go, the v1.0.2 program in     *)
(* lines 1-387): flag handling, the loading of the list files, the paged   *)
(* fetch of the repositories, the exclusion filter, the priority/recency   *)
(* ordering and the writing of the README.                                 *)
(*                                                                         *)
(* Strings are sequences of one-character strings, so that trimming,       *)
(* prefix tests, splitting and case folding are computed and not assumed.  *)
(* Times are integers; time.Time.After is >.                               *)
(***************************************************************************)
EXTENDS Integers, Sequences, FiniteSets, TLC

VARIABLES
    args,           \* the parsed command line (flag values), fixed for a run
    fs,             \* the input files: path -> [err, lines]
    pc,             \* position of main
    exitCode,       \* process exit status, -1 while running
    stdout,         \* the lines printed so far
    excludeList,    \* main: excludeList
    priorityList,   \* main: priorityList
    aiCredits,      \* main: aiCredits (map repo name -> AICredit)
    contactInfo,    \* main: contactInfo
    page,           \* fetchRepositories: page
    allRepos,       \* fetchRepositories: allRepos
    requests,       \* every HTTP request issued so far, in order
    responses,      \* every HTTP outcome received so far, in order
    err,            \* the error main got from the failing call, or NoErr
    repos,          \* main: repos
    filteredRepos,  \* main: filteredRepos
    outFile,        \* the output file: untouched, created (truncated) or written
    enrichIdx,      \* enrichment stage: index of the record being enriched
    warnings,       \* enrichment stage: warnings reported so far
    lookups,        \* enrichment stage: every release lookup so far, with its answer
    reordered       \* result of applying the ordering stage a second time

vars == <<args, fs, pc, exitCode, stdout, excludeList, priorityList, aiCredits,
          contactInfo, page, allRepos, requests, responses, err, repos,
          filteredRepos, outFile, enrichIdx, warnings, lookups, reordered>>

(***************************************************************************)
(* Bounds of the model                                                     *)
(***************************************************************************)
\* how many full pages the server may serve before a short one
MaxFullPages == 1
\* longest repository list of the stage specifications
MaxRepos == 3
\* longest exclusion / priority list of the stage specifications
MaxList == 2

(***************************************************************************)
(* Program constants                                                       *)
(***************************************************************************)
perPage == 100
StatusOK == 200

NoErr == [kind |-> "none"]

Range(s) == {s[i] : i \in DOMAIN s}

(***************************************************************************)
(* Strings                                                                 *)
(***************************************************************************)
\* unicode simple case folding, restricted to the letters the model uses
FoldChar(c) ==
    CASE c = "X" -> "x"
      [] c = "Y" -> "y"
      [] c = "Z" -> "z"
      [] c = "R" -> "r"
      [] OTHER -> c

RECURSIVE EqualFold(_, _)
EqualFold(s, t) ==
    IF s = <<>> \/ t = <<>>
    THEN s = <<>> /\ t = <<>>
    ELSE /\ FoldChar(Head(s)) = FoldChar(Head(t))
         /\ EqualFold(Tail(s), Tail(t))

RECURSIVE TrimLeft(_)
TrimLeft(s) ==
    IF s # <<>> /\ Head(s) = " " THEN TrimLeft(Tail(s)) ELSE s

RECURSIVE TrimRight(_)
TrimRight(s) ==
    IF s # <<>> /\ s[Len(s)] = " "
    THEN TrimRight(SubSeq(s, 1, Len(s) - 1))
    ELSE s

TrimSpace(s) == TrimRight(TrimLeft(s))

HasPrefix(s, p) == Len(s) >= Len(p) /\ SubSeq(s, 1, Len(p)) = p

\* strings.Split(s, sep) for a one-character separator
RECURSIVE SplitFrom(_, _, _)
SplitFrom(s, sep, cur) ==
    IF s = <<>> THEN <<cur>>
    ELSE IF Head(s) = sep
         THEN <<cur>> \o SplitFrom(Tail(s), sep, <<>>)
         ELSE SplitFrom(Tail(s), sep, Append(cur, Head(s)))

Split(s, sep) == SplitFrom(s, sep, <<>>)

(***************************************************************************)
(* loadTextFile, loadAICredits                                             *)
(***************************************************************************)
RECURSIVE KeepLines(_)
KeepLines(raw) ==
    IF raw = <<>> THEN <<>>
    ELSE LET line == TrimSpace(Head(raw))
         IN  IF line # <<>> /\ ~HasPrefix(line, <<"#">>)
             THEN <<line>> \o KeepLines(Tail(raw))
             ELSE KeepLines(Tail(raw))

\* the file system answer for a path: open fails, the scan fails, or lines
loadTextFile(files, filename) ==
    IF filename = "" THEN [lines |-> <<>>, err |-> NoErr]
    ELSE IF files[filename].err # "none"
         THEN [lines |-> <<>>, err |-> [kind |-> files[filename].err]]
         ELSE [lines |-> KeepLines(files[filename].lines), err |-> NoErr]

RECURSIVE CreditsOf(_, _)
CreditsOf(lines, credits) ==
    IF lines = <<>> THEN credits
    ELSE LET parts == Split(Head(lines), "|")
         IN  IF Len(parts) >= 6
             THEN LET repoName == TrimSpace(parts[1])
                      credit == [ImagePath |-> TrimSpace(parts[2]),
                                 AltText   |-> TrimSpace(parts[3]),
                                 TitleText |-> TrimSpace(parts[4]),
                                 Width     |-> TrimSpace(parts[5]),
                                 Height    |-> TrimSpace(parts[6])]
                  IN  CreditsOf(Tail(lines),
                                [n \in DOMAIN credits \cup {repoName} |->
                                    IF n = repoName THEN credit ELSE credits[n]])
             ELSE CreditsOf(Tail(lines), credits)

EmptyMap == [n \in {} |-> 0]

loadAICredits(files, filename) ==
    IF filename = "" THEN [credits |-> EmptyMap, err |-> NoErr]
    ELSE LET got == loadTextFile(files, filename)
         IN  IF got.err # NoErr
             THEN [credits |-> EmptyMap, err |-> got.err]
             ELSE [credits |-> CreditsOf(got.lines, EmptyMap), err |-> NoErr]

(***************************************************************************)
(* shouldExcludeRepo, getPriorityIndex, the filter loop, the comparator    *)
(***************************************************************************)
\* a variant that compares the names with == instead of strings.EqualFold
shouldExcludeRepoExact(repoName, list) ==
    \E k \in DOMAIN list : repoName = list[k]

RECURSIVE shouldExcludeRepo(_, _)
shouldExcludeRepo(repoName, list) ==
    IF list = <<>> THEN FALSE
    ELSE IF EqualFold(repoName, Head(list)) THEN TRUE
         ELSE shouldExcludeRepo(repoName, Tail(list))

\* 0-based index of the first match, -1 when there is none
RECURSIVE PriorityFrom(_, _, _)
PriorityFrom(repoName, list, i) ==
    IF list = <<>> THEN -1
    ELSE IF EqualFold(repoName, Head(list)) THEN i
         ELSE PriorityFrom(repoName, Tail(list), i + 1)

\* a variant that compares the names with == instead of strings.EqualFold
getPriorityIndexExact(repoName, list) ==
    IF \E k \in DOMAIN list : list[k] = repoName
    THEN (CHOOSE k \in DOMAIN list :
              /\ list[k] = repoName
              /\ \A h \in 1..(k - 1) : list[h] # repoName) - 1
    ELSE -1

getPriorityIndex(repoName, list) == PriorityFrom(repoName, list, 0)

\* the loop of main that appends every record that is not excluded
FilterRepos(rs, list) ==
    LET Kept(r) == ~shouldExcludeRepo(r.Name, list)
    IN  SelectSeq(rs, Kept)

\* a variant that orders two priority records by descending index
RepoLessPriorityReversed(a, b, list) ==
    LET iPriority == getPriorityIndex(a.Name, list)
        jPriority == getPriorityIndex(b.Name, list)
    IN  IF iPriority >= 0 /\ jPriority >= 0 THEN iPriority > jPriority
        ELSE IF iPriority >= 0 THEN TRUE
        ELSE IF jPriority >= 0 THEN FALSE
        ELSE a.UpdatedAt > b.UpdatedAt

\* a variant that uses Before instead of After: oldest first
RepoLessOldestFirst(a, b, list) ==
    LET iPriority == getPriorityIndex(a.Name, list)
        jPriority == getPriorityIndex(b.Name, list)
    IN  IF iPriority >= 0 /\ jPriority >= 0 THEN iPriority < jPriority
        ELSE IF iPriority >= 0 THEN TRUE
        ELSE IF jPriority >= 0 THEN FALSE
        ELSE a.UpdatedAt < b.UpdatedAt

\* a variant that uses "not Before" for After: equal times are less both ways
RepoLessNotStrict(a, b, list) ==
    LET iPriority == getPriorityIndex(a.Name, list)
        jPriority == getPriorityIndex(b.Name, list)
    IN  IF iPriority >= 0 /\ jPriority >= 0 THEN iPriority < jPriority
        ELSE IF iPriority >= 0 THEN TRUE
        ELSE IF jPriority >= 0 THEN FALSE
        ELSE a.UpdatedAt >= b.UpdatedAt

\* the less function handed to sort.Slice
RepoLess(a, b, list) ==
    LET iPriority == getPriorityIndex(a.Name, list)
        jPriority == getPriorityIndex(b.Name, list)
    IN  IF iPriority >= 0 /\ jPriority >= 0 THEN iPriority < jPriority
        ELSE IF iPriority >= 0 THEN TRUE
        ELSE IF jPriority >= 0 THEN FALSE
        ELSE a.UpdatedAt > b.UpdatedAt

(***************************************************************************)
(* sort.Slice                                                              *)
(*                                                                         *)
(* sort.Slice sorts by the less function and is documented as not stable:  *)
(* "equal elements may be reversed from their original order".  Its result *)
(* is therefore any arrangement of the slice that is sorted by less; for a *)
(* less that is a strict weak ordering these are the arrangements that put *)
(* each element within the positions of its equivalence class.             *)
(***************************************************************************)
\* f itself, tabulated once instead of recomputed at every application
Table(f) == f @@ <<>>

SortOutcomes(s, list) ==
    LET n == Len(s)
        rank == Table([i \in 1..n |->
                    Cardinality({j \in 1..n : RepoLess(s[j], s[i], list)})])
        size == Table([i \in 1..n |->
                    Cardinality({j \in 1..n : rank[j] = rank[i]})])
        \* classes of one element have one place; only the others branch
        tied == {i \in 1..n : size[i] > 1}
        \* the ways to lay the class of rank r on the positions r+1 .. r+size
        Lay(r) == LET class == {i \in tied : rank[i] = r}
                  IN  {f \in [class -> (r + 1)..(r + Cardinality(class))] :
                          \A i, j \in class : f[i] = f[j] => i = j}
        RECURSIVE Place(_)
        Place(R) ==
            IF R = {} THEN {<<>>}
            ELSE LET r == CHOOSE x \in R : TRUE
                 IN  UNION {{m @@ f : f \in Lay(r)} : m \in Place(R \ {r})}
        Out(m) ==
            LET pos == Table([i \in 1..n |->
                                IF i \in tied THEN m[i] ELSE rank[i] + 1])
                at == Table([k \in 1..n |-> CHOOSE i \in 1..n : pos[i] = k])
            IN  [k \in 1..n |-> s[at[k]]]
    IN  {Out(m) : m \in Place({rank[i] : i \in tied})}

(***************************************************************************)
(* generateReadme: the data handed to the template                         *)
(***************************************************************************)
\* a variant whose loop starts at the second record
TemplateReposSkipFirst(rs, credits) ==
    [i \in 1..(Len(rs) - 1) |->
        [Repository |-> rs[i + 1],
         AICredit   |-> IF rs[i + 1].Name \in DOMAIN credits
                        THEN <<credits[rs[i + 1].Name]>> ELSE <<>>]]

TemplateRepos(rs, credits) ==
    [i \in 1..Len(rs) |->
        [Repository |-> rs[i],
         AICredit   |-> IF rs[i].Name \in DOMAIN credits
                        THEN <<credits[rs[i].Name]>> ELSE <<>>]]

TemplateData(rs, contact, credits) ==
    [Repos |-> TemplateRepos(rs, credits), ContactInfo |-> contact]

(***************************************************************************)
(* The environment: command lines, input files, server answers             *)
(***************************************************************************)
Repo(name, updated, pushed) ==
    [Name |-> name, UpdatedAt |-> updated, PushedAt |-> pushed]

DigitChars == <<"0", "1", "2", "3", "4", "5", "6", "7", "8", "9">>

RECURSIVE Digits(_)
Digits(i) ==
    IF i < 10 THEN <<DigitChars[i + 1]>>
    ELSE Digits(i \div 10) \o <<DigitChars[(i % 10) + 1]>>

\* the p-th full page of a large account: perPage distinct repositories
BulkPage(p) ==
    [i \in 1..perPage |->
        Repo(<<"r">> \o Digits((p - 1) * perPage + i),
             10 + (p - 1) * perPage + i,
             10 + p * perPage - i)]

\* the short pages a server may answer with
ShortPages ==
    { <<>>,
      <<Repo(<<"x">>, 1, 2)>>,
      <<Repo(<<"y">>, 1, 1), Repo(<<"X">>, 2, 1)>>,
      <<Repo(<<"x", "y">>, 2, 1), Repo(<<"Y">>, 2, 2), Repo(<<"z">>, 1, 2)>> }

ErrorStatuses == {403, 404, 500}
ErrorBodies == {"rate limit exceeded", ""}

File(lines) == [err |-> "none", lines |-> lines]
OpenFails == [err |-> "open", lines |-> <<>>]
ScanFails == [err |-> "scan", lines |-> <<>>]

ExcludeFiles ==
    { File(<< <<"#", " ", "o", "l", "d">>, <<" ", "X", " ">>, <<>> >>),
      File(<< <<"z">>, <<"y">> >>) }
PriorityFiles ==
    { File(<< <<"Y">>, <<"x">>, <<" ">> >>),
      File(<< <<"z">>, <<"#", "x">>, <<"x", "y">>, <<"Z">> >>) }
AICreditFiles ==
    { File(<< <<"#", "f", "m", "t">>,
              <<"y", " ", "|", "i", "|", "a", "|", "t", "|", "9", "|", "3">>,
              <<"z", "|", "i">> >>) }
ContactFiles ==
    { File(<< <<"m", "a", "i", "l">>, <<>>, <<"w", "e", "b">> >>) }

Paths == {"exclude.txt", "priority.txt", "ai-credits.txt", "contact.txt"}

BaseArgs ==
    [showVersion |-> FALSE, user |-> "muquit",
     exclude |-> "exclude.txt", priority |-> "priority.txt",
     aiCredits |-> "ai-credits.txt", contact |-> "contact.txt",
     output |-> "README.md"]

BaseFs ==
    [p \in Paths |->
        CASE p = "exclude.txt"    -> File(<< <<"#", " ", "o", "l", "d">>,
                                             <<" ", "X", " ">>, <<>> >>)
          [] p = "priority.txt"   -> File(<< <<"Y">>, <<"x">>, <<" ">> >>)
          [] p = "ai-credits.txt" -> CHOOSE f \in AICreditFiles : TRUE
          [] p = "contact.txt"    -> CHOOSE f \in ContactFiles : TRUE]

FlagOf(p) ==
    CASE p = "exclude.txt"    -> "exclude"
      [] p = "priority.txt"   -> "priority"
      [] p = "ai-credits.txt" -> "aiCredits"
      [] p = "contact.txt"    -> "contact"

FilesFor(p) ==
    {OpenFails, ScanFails} \cup
    (CASE p = "exclude.txt"    -> ExcludeFiles
       [] p = "priority.txt"   -> PriorityFiles
       [] p = "ai-credits.txt" -> AICreditFiles
       [] p = "contact.txt"    -> ContactFiles)

\* the runs explored: the base run, and the base run with one thing changed
Scenarios ==
    {[a |-> BaseArgs, f |-> BaseFs]}
    \cup {[a |-> [BaseArgs EXCEPT !.showVersion = TRUE], f |-> BaseFs]}
    \cup {[a |-> [BaseArgs EXCEPT !.user = ""], f |-> BaseFs]}
    \cup {[a |-> [BaseArgs EXCEPT !.showVersion = TRUE, !.user = ""], f |-> BaseFs]}
    \cup {[a |-> [BaseArgs EXCEPT ![FlagOf(p)] = ""], f |-> BaseFs] : p \in Paths}
    \cup UNION {{[a |-> BaseArgs, f |-> [BaseFs EXCEPT ![p] = x]] : x \in FilesFor(p)} :
                p \in Paths}

NetErr == [kind |-> "neterr", status |-> 0,
           body |-> [array |-> FALSE, items |-> <<>>, text |-> ""]]
TextBody(t) == [array |-> FALSE, items |-> <<>>, text |-> t]
ArrayBody(rs) == [array |-> TRUE, items |-> rs, text |-> ""]
Response(status, body) == [kind |-> "response", status |-> status, body |-> body]

\* what the server may answer to the request for page p
ServerAnswers(p) ==
    {NetErr}
    \cup {Response(s, TextBody(b)) : s \in ErrorStatuses, b \in ErrorBodies}
    \cup {Response(StatusOK, TextBody("<html>"))}
    \cup {Response(StatusOK, ArrayBody(rs)) : rs \in ShortPages}
    \cup (IF p <= MaxFullPages
          THEN {Response(StatusOK, ArrayBody(BulkPage(p)))} ELSE {})

NoData == [Repos |-> <<>>, ContactInfo |-> <<>>]
Untouched == [state |-> "untouched", data |-> NoData]
NotReordered == [done |-> FALSE, list |-> <<>>]

(***************************************************************************)
(* main                                                                    *)
(***************************************************************************)
Defaults ==
    /\ exitCode = -1
    /\ stdout = <<>>
    /\ excludeList = <<>>
    /\ priorityList = <<>>
    /\ aiCredits = EmptyMap
    /\ contactInfo = <<>>
    /\ page = 0
    /\ allRepos = <<>>
    /\ requests = <<>>
    /\ responses = <<>>
    /\ err = NoErr
    /\ repos = <<>>
    /\ filteredRepos = <<>>
    /\ outFile = Untouched
    /\ enrichIdx = 0
    /\ warnings = <<>>
    /\ lookups = <<>>
    /\ reordered = NotReordered

Init ==
    /\ \E sc \in Scenarios : args = sc.a /\ fs = sc.f
    /\ pc = "start"
    /\ Defaults

Msg(m, n) == [msg |-> m, n |-> n]

\* os.Exit(code) after printing the given lines
Exit(code, lines) ==
    /\ pc' = "exit"
    /\ exitCode' = code
    /\ stdout' = stdout \o lines

enrichVars == <<enrichIdx, warnings, lookups>>
fetchVars == <<page, allRepos, requests, responses>>
listVars == <<excludeList, priorityList, aiCredits, contactInfo>>

\* a variant without the -user check
MainFlagsNoUserCheck ==
    /\ pc = "start"
    /\ IF args.showVersion
       THEN Exit(0, <<Msg("version", 0)>>)
       ELSE /\ pc' = "load_exclude"
            /\ UNCHANGED <<exitCode, stdout>>
    /\ UNCHANGED <<args, fs, listVars, fetchVars, err, repos, filteredRepos,
                   outFile, enrichVars, reordered>>

\* flag.Parse is done; -version and the -user check
MainFlags ==
    /\ pc = "start"
    /\ IF args.showVersion
       THEN Exit(0, <<Msg("version", 0)>>)
       ELSE IF args.user = ""
            THEN Exit(1, <<Msg("Error: GitHub username is required", 0),
                           Msg("usage", 0)>>)
            ELSE /\ pc' = "load_exclude"
                 /\ UNCHANGED <<exitCode, stdout>>
    /\ UNCHANGED <<args, fs, listVars, fetchVars, err, repos, filteredRepos,
                   outFile, enrichVars, reordered>>

MainLoadExclude ==
    /\ pc = "load_exclude"
    /\ LET got == loadTextFile(fs, args.exclude)
       IN  IF got.err.kind # "none"
           THEN /\ err' = got.err
                /\ Exit(1, <<Msg("Error loading exclusion file", 0)>>)
                /\ UNCHANGED excludeList
           ELSE /\ excludeList' = got.lines
                /\ pc' = "load_priority"
                /\ UNCHANGED <<exitCode, stdout, err>>
    /\ UNCHANGED <<args, fs, priorityList, aiCredits, contactInfo, fetchVars,
                   repos, filteredRepos, outFile, enrichVars, reordered>>

MainLoadPriority ==
    /\ pc = "load_priority"
    /\ LET got == loadTextFile(fs, args.priority)
       IN  IF got.err.kind # "none"
           THEN /\ err' = got.err
                /\ Exit(1, <<Msg("Error loading priority file", 0)>>)
                /\ UNCHANGED priorityList
           ELSE /\ priorityList' = got.lines
                /\ pc' = "load_credits"
                /\ UNCHANGED <<exitCode, stdout, err>>
    /\ UNCHANGED <<args, fs, excludeList, aiCredits, contactInfo, fetchVars,
                   repos, filteredRepos, outFile, enrichVars, reordered>>

MainLoadAICredits ==
    /\ pc = "load_credits"
    /\ LET got == loadAICredits(fs, args.aiCredits)
       IN  IF got.err.kind # "none"
           THEN /\ err' = got.err
                /\ Exit(1, <<Msg("Error loading AI credits file", 0)>>)
                /\ UNCHANGED aiCredits
           ELSE /\ aiCredits' = got.credits
                /\ pc' = "fetch"
                /\ UNCHANGED <<exitCode, stdout, err>>
    /\ UNCHANGED <<args, fs, excludeList, priorityList, contactInfo, fetchVars,
                   repos, filteredRepos, outFile, enrichVars, reordered>>

(***************************************************************************)
(* fetchRepositories                                                       *)
(***************************************************************************)
\* main prints and calls fetchRepositories, which sets up its locals
FetchStart ==
    /\ pc = "fetch"
    /\ stdout' = Append(stdout, Msg("Fetching repositories", 0))
    /\ page' = 1
    /\ allRepos' = <<>>
    /\ pc' = "fetch_send"
    /\ UNCHANGED <<args, fs, exitCode, listVars, requests, responses, err, repos,
                   filteredRepos, outFile, enrichVars, reordered>>

\* the request of one loop round
PageRequest(user, p) ==
    [method |-> "GET", user |-> user, page |-> p, per_page |-> perPage,
     agent |-> "github-profilegen-go"]

\* a variant that asks for the next page too before the answer is in
FetchSendAhead ==
    /\ pc = "fetch_send"
    /\ requests' = requests \o <<PageRequest(args.user, page),
                                 PageRequest(args.user, page + 1)>>
    /\ pc' = "fetch_wait"
    /\ UNCHANGED <<args, fs, exitCode, stdout, listVars, page, allRepos,
                   responses, err, repos, filteredRepos, outFile, enrichVars,
                   reordered>>

FetchSend ==
    /\ pc = "fetch_send"
    /\ requests' = Append(requests, PageRequest(args.user, page))
    /\ pc' = "fetch_wait"
    /\ UNCHANGED <<args, fs, exitCode, stdout, listVars, page, allRepos,
                   responses, err, repos, filteredRepos, outFile, enrichVars,
                   reordered>>

\* the error fetchRepositories returns for an answer, NoErr for a decoded page
FetchError(resp) ==
    IF resp.kind = "neterr" THEN [kind |-> "transport"]
    ELSE IF resp.status # StatusOK
         THEN [kind |-> "status", code |-> resp.status, body |-> resp.body]
         ELSE IF ~resp.body.array THEN [kind |-> "decode"]
              ELSE NoErr

\* a variant that hands back the pages gathered so far with the error
FetchErrorReposGathered(gathered) == gathered

\* the records fetchRepositories returns next to an error
FetchErrorRepos(gathered) == <<>>

\* a variant that goes on until a page is empty
LastPageWhenEmpty(items) == Len(items) = 0

\* whether the loop stops after a decoded page
LastPage(items) == Len(items) < perPage

FetchReceive ==
    /\ pc = "fetch_wait"
    /\ \E resp \in ServerAnswers(page) :
        /\ responses' = Append(responses, resp)
        /\ LET e == FetchError(resp)
           IN  IF e.kind # "none"
               THEN /\ err' = e
                    /\ repos' = FetchErrorRepos(allRepos)
                    /\ Exit(1, <<Msg("Error fetching repositories", 0)>>)
                    /\ UNCHANGED <<page, allRepos>>
               ELSE /\ allRepos' = allRepos \o resp.body.items
                    /\ IF LastPage(resp.body.items)
                       THEN /\ repos' = allRepos'
                            /\ stdout' = Append(stdout, Msg("Found", Len(allRepos')))
                            /\ pc' = "filter"
                            /\ UNCHANGED page
                       ELSE /\ page' = page + 1
                            /\ pc' = "fetch_send"
                            /\ UNCHANGED <<repos, stdout>>
                    /\ UNCHANGED <<exitCode, err>>
    /\ UNCHANGED <<args, fs, listVars, requests, filteredRepos, outFile,
                   enrichVars, reordered>>

(***************************************************************************)
(* main: filter, sort, contact file, generateReadme                        *)
(***************************************************************************)
\* a variant that keeps an excluded record when the priority list names it
MainFilterKeepsPriority ==
    /\ pc = "filter"
    /\ LET Kept(r) == \/ ~shouldExcludeRepo(r.Name, excludeList)
                       \/ getPriorityIndex(r.Name, priorityList) >= 0
       IN  filteredRepos' = SelectSeq(repos, Kept)
    /\ stdout' = Append(stdout, Msg("After excluding", Len(filteredRepos')))
    /\ pc' = "sort"
    /\ UNCHANGED <<args, fs, exitCode, listVars, fetchVars, err, repos, outFile,
                   enrichVars, reordered>>

MainFilter ==
    /\ pc = "filter"
    /\ filteredRepos' = FilterRepos(repos, excludeList)
    /\ stdout' = Append(stdout, Msg("After excluding", Len(filteredRepos')))
    /\ pc' = "sort"
    /\ UNCHANGED <<args, fs, exitCode, listVars, fetchVars, err, repos, outFile,
                   enrichVars, reordered>>

MainSort ==
    /\ pc = "sort"
    /\ \E out \in SortOutcomes(filteredRepos, priorityList) : filteredRepos' = out
    /\ pc' = "load_contact"
    /\ UNCHANGED <<args, fs, exitCode, stdout, listVars, fetchVars, err, repos,
                   outFile, enrichVars, reordered>>

\* a variant that goes on to generateReadme when the contact file fails
MainLoadContactLenient ==
    /\ pc = "load_contact"
    /\ IF args.contact # ""
       THEN LET got == loadTextFile(fs, args.contact)
            IN  /\ contactInfo' = got.lines
                /\ err' = got.err
                /\ stdout' = stdout \o
                       <<Msg("Loaded contact information", Len(got.lines)),
                         Msg("Generating README", 0)>>
       ELSE /\ stdout' = Append(stdout, Msg("Generating README", 0))
            /\ UNCHANGED <<err, contactInfo>>
    /\ pc' = "generate"
    /\ UNCHANGED <<args, fs, exitCode, excludeList, priorityList, aiCredits,
                   fetchVars, repos, filteredRepos, outFile, enrichVars, reordered>>

MainLoadContact ==
    /\ pc = "load_contact"
    /\ IF args.contact # ""
       THEN LET got == loadTextFile(fs, args.contact)
            IN  IF got.err.kind # "none"
                THEN /\ err' = got.err
                     /\ Exit(1, <<Msg("Error loading contact file", 0)>>)
                     /\ UNCHANGED contactInfo
                ELSE /\ contactInfo' = got.lines
                     /\ stdout' = stdout \o
                            <<Msg("Loaded contact information", Len(got.lines)),
                              Msg("Generating README", 0)>>
                     /\ pc' = "generate"
                     /\ UNCHANGED <<exitCode, err>>
       ELSE /\ stdout' = Append(stdout, Msg("Generating README", 0))
            /\ pc' = "generate"
            /\ UNCHANGED <<exitCode, err, contactInfo>>
    /\ UNCHANGED <<args, fs, excludeList, priorityList, aiCredits, fetchVars,
                   repos, filteredRepos, outFile, enrichVars, reordered>>

\* generateReadme up to os.Create: the template text is constant and parses
GenerateCreate ==
    /\ pc = "generate"
    /\ \E ok \in BOOLEAN :
        IF ok
        THEN /\ outFile' = [state |-> "created", data |-> NoData]
             /\ pc' = "execute"
             /\ UNCHANGED <<exitCode, stdout, err>>
        ELSE /\ err' = [kind |-> "create"]
             /\ Exit(1, <<Msg("Error generating README", 0)>>)
             /\ UNCHANGED outFile
    /\ UNCHANGED <<args, fs, listVars, fetchVars, repos, filteredRepos,
                   enrichVars, reordered>>

\* a variant of main that drops the error generateReadme returns
GenerateExecuteIgnoringError ==
    /\ pc = "execute"
    /\ \E ok \in BOOLEAN :
        IF ok
        THEN /\ outFile' = [state |-> "written",
                            data |-> TemplateData(filteredRepos, contactInfo,
                                                  aiCredits)]
             /\ Exit(0, <<Msg("Done!", 0)>>)
             /\ UNCHANGED err
        ELSE /\ outFile' = [state |-> "partial", data |-> NoData]
             /\ err' = [kind |-> "execute"]
             /\ Exit(0, <<Msg("Done!", 0)>>)
    /\ UNCHANGED <<args, fs, listVars, fetchVars, repos, filteredRepos,
                   enrichVars, reordered>>

\* a variant that hands the fetched list, not the ordered one, to the template
GenerateExecuteFetched ==
    /\ pc = "execute"
    /\ \E ok \in BOOLEAN :
        IF ok
        THEN /\ outFile' = [state |-> "written",
                            data |-> TemplateData(repos, contactInfo, aiCredits)]
             /\ Exit(0, <<Msg("Done!", 0)>>)
             /\ UNCHANGED err
        ELSE /\ outFile' = [state |-> "partial", data |-> NoData]
             /\ err' = [kind |-> "execute"]
             /\ Exit(1, <<Msg("Error generating README", 0)>>)
    /\ UNCHANGED <<args, fs, listVars, fetchVars, repos, filteredRepos,
                   enrichVars, reordered>>

\* tmpl.Execute and the return to main
GenerateExecute ==
    /\ pc = "execute"
    /\ \E ok \in BOOLEAN :
        IF ok
        THEN /\ outFile' = [state |-> "written",
                            data |-> TemplateData(filteredRepos, contactInfo,
                                                  aiCredits)]
             /\ Exit(0, <<Msg("Done!", 0)>>)
             /\ UNCHANGED err
        ELSE /\ outFile' = [state |-> "partial", data |-> NoData]
             /\ err' = [kind |-> "execute"]
             /\ Exit(1, <<Msg("Error generating README", 0)>>)
    /\ UNCHANGED <<args, fs, listVars, fetchVars, repos, filteredRepos,
                   enrichVars, reordered>>

Next ==
    \/ MainFlags
    \/ MainLoadExclude
    \/ MainLoadPriority
    \/ MainLoadAICredits
    \/ FetchStart
    \/ FetchSend
    \/ FetchReceive
    \/ MainFilter
    \/ MainSort
    \/ MainLoadContact
    \/ GenerateCreate
    \/ GenerateExecute

Spec == Init /\ [][Next]_vars

(***************************************************************************)
(* The filter stage and the ordering stage on their own: main from the     *)
(* filter loop, or from sort.Slice, on every small input.                  *)
(***************************************************************************)
SeqsUpTo(S, n) == UNION {[1..k -> S] : k \in 0..n}

Names == {<<"x">>, <<"X">>, <<"y">>, <<"x", "y">>}
Times == {1, 2}

\* every name at both times; the last-pushed time is the other one, so that
\* ordering by last-pushed differs from ordering by last-updated
RepoPool == {Repo(nm, u, CHOOSE p \in Times : p # u) : nm \in Names, u \in Times}
PriorityLists ==
    { <<>>,
      << <<"x">> >>,
      << <<"y">> >>,
      << <<"y">>, <<"X">> >>,
      << <<"X">>, <<"x">>, <<"Y">> >>,
      << <<"x", "y">>, <<"x">> >> }

Idle ==
    /\ args = BaseArgs
    /\ fs = BaseFs
    /\ exitCode = -1
    /\ stdout = <<>>
    /\ aiCredits = EmptyMap
    /\ contactInfo = <<>>
    /\ page = 1
    /\ requests = <<>>
    /\ responses = <<>>
    /\ err = NoErr
    /\ outFile = Untouched
    /\ enrichIdx = 0
    /\ warnings = <<>>
    /\ lookups = <<>>
    /\ reordered = NotReordered

\* main at the filter loop, with any fetched list and any exclusion list
InitFilter ==
    /\ Idle
    /\ pc = "filter"
    /\ repos \in SeqsUpTo(RepoPool, MaxRepos)
    /\ allRepos = repos
    /\ excludeList \in SeqsUpTo(Names, MaxList)
    /\ priorityList = <<>>
    /\ filteredRepos = <<>>

SpecFilter == InitFilter /\ [][MainFilter]_vars

\* main at sort.Slice, with any filtered list (nothing was excluded)
InitOrder ==
    /\ Idle
    /\ pc = "sort"
    /\ repos \in SeqsUpTo(RepoPool, MaxRepos)
    /\ allRepos = repos
    /\ excludeList = <<>>
    /\ priorityList \in PriorityLists
    /\ filteredRepos = repos

\* the ordering stage applied to its own output
Reapply ==
    /\ pc = "load_contact"
    /\ ~reordered.done
    /\ \E out \in SortOutcomes(filteredRepos, priorityList) :
        reordered' = [done |-> TRUE, list |-> out]
    /\ UNCHANGED <<args, fs, pc, exitCode, stdout, listVars, fetchVars, err,
                   repos, filteredRepos, outFile, enrichVars>>

NextOrder == MainSort \/ Reapply

SpecOrder == InitOrder /\ [][NextOrder]_vars

\* how many records the comparator is tried on at a time
MaxCompared == 3

\* main at sort.Slice, with the records the comparator is to compare
InitCompare ==
    /\ Idle
    /\ pc = "sort"
    /\ repos \in SeqsUpTo(RepoPool, MaxCompared)
    /\ allRepos = repos
    /\ excludeList = <<>>
    /\ priorityList \in PriorityLists
    /\ filteredRepos = repos

SpecCompare == InitCompare /\ [][MainSort]_vars

\* one record per name, two of them newer than the other two
StagePool ==
    {Repo(<<"x">>, 1, 2), Repo(<<"X">>, 2, 1), Repo(<<"y">>, 2, 1),
     Repo(<<"x", "y">>, 1, 2)}

ExcludeLists ==
    { <<>>,
      << <<"X">> >>,
      << <<"y">> >>,
      << <<"x", "y">>, <<"Y">> >>,
      << <<"x">>, <<"z">> >> }

\* main at the filter loop, with any fetched list and both lists loaded
InitStages ==
    /\ Idle
    /\ pc = "filter"
    /\ repos \in SeqsUpTo(StagePool, MaxRepos)
    /\ allRepos = repos
    /\ excludeList \in ExcludeLists
    /\ priorityList \in PriorityLists
    /\ filteredRepos = <<>>

NextStages ==
    \/ MainFilter
    \/ MainSort
    \/ MainLoadContact
    \/ GenerateCreate
    \/ GenerateExecute

\* main from the filter loop to its end
SpecStages == InitStages /\ [][NextStages]_vars

(***************************************************************************)
(* Vocabulary of the properties                                            *)
(***************************************************************************)
Lower(s) == [i \in DOMAIN s |-> FoldChar(s[i])]

\* name n equals, ignoring case, some entry of list
NameIn(n, list) == \E k \in DOMAIN list : Lower(n) = Lower(list[k])

\* position in list of the first entry that equals n ignoring case
FirstPos(n, list) ==
    CHOOSE k \in DOMAIN list :
        /\ Lower(n) = Lower(list[k])
        /\ \A h \in 1..(k - 1) : Lower(n) # Lower(list[h])

\* the subsequence of s at the indices in keep
Pick(s, keep) ==
    [k \in 1..Cardinality(keep) |->
        s[CHOOSE i \in keep : Cardinality({j \in keep : j <= i}) = k]]

(***************************************************************************)
(* C1: the filter loop yields exactly the records whose name equals,       *)
(* ignoring case, no entry of the exclusion list, in their original        *)
(* order; with an empty exclusion list it yields the fetched list.         *)
(***************************************************************************)
C1_FilterExact ==
    pc = "sort" =>
        /\ filteredRepos =
              Pick(repos, {i \in DOMAIN repos : ~NameIn(repos[i].Name, excludeList)})
        /\ excludeList = <<>> => filteredRepos = repos

\* records [x, y] with exclusion list [X]: x goes, y stays
C1_Witness ==
    /\ pc = "sort"
    /\ excludeList = << <<"X">> >>
    /\ Len(repos) = 2
    /\ repos[1].Name = <<"x">>
    /\ repos[2].Name = <<"y">>
    /\ filteredRepos = <<repos[2]>>

(***************************************************************************)
(* C2: after the ordering stage every record whose name is in the priority *)
(* list comes before every record whose name is not, and the records in    *)
(* the priority list are in the list's order.                              *)
(***************************************************************************)
C2_PriorityFirst ==
    pc = "load_contact" =>
        \A i, j \in DOMAIN filteredRepos :
            i < j =>
                LET a == filteredRepos[i].Name
                    b == filteredRepos[j].Name
                IN  /\ NameIn(b, priorityList) => NameIn(a, priorityList)
                    /\ NameIn(a, priorityList) /\ NameIn(b, priorityList) =>
                          FirstPos(a, priorityList) <= FirstPos(b, priorityList)

\* input [other, second of P, first of P] comes out as [first, second, other]
C2_Witness ==
    /\ pc = "load_contact"
    /\ priorityList = << <<"y">>, <<"X">> >>
    /\ Len(repos) = 3
    /\ ~NameIn(repos[1].Name, priorityList)
    /\ repos[2].Name = <<"x">>
    /\ repos[3].Name = <<"y">>
    /\ filteredRepos = <<repos[3], repos[2], repos[1]>>

(***************************************************************************)
(* C3: after the ordering stage the records whose name is not in the       *)
(* priority list are in descending order of their timestamp.               *)
(***************************************************************************)
\* as claimed: by the last-pushed timestamp
C3_PushedDescending ==
    pc = "load_contact" =>
        \A i, j \in DOMAIN filteredRepos :
            /\ i < j
            /\ ~NameIn(filteredRepos[i].Name, priorityList)
            /\ ~NameIn(filteredRepos[j].Name, priorityList)
            => filteredRepos[i].PushedAt >= filteredRepos[j].PushedAt

\* as the code orders them: by the last-updated timestamp
C3_UpdatedDescending ==
    pc = "load_contact" =>
        \A i, j \in DOMAIN filteredRepos :
            /\ i < j
            /\ ~NameIn(filteredRepos[i].Name, priorityList)
            /\ ~NameIn(filteredRepos[j].Name, priorityList)
            => filteredRepos[i].UpdatedAt >= filteredRepos[j].UpdatedAt

\* two records outside the priority list were swapped to put the newer first
C3_Witness ==
    /\ pc = "load_contact"
    /\ priorityList = << <<"y">> >>
    /\ Len(repos) = 2
    /\ ~NameIn(repos[1].Name, priorityList)
    /\ ~NameIn(repos[2].Name, priorityList)
    /\ repos[1].UpdatedAt < repos[2].UpdatedAt
    /\ repos[1].PushedAt > repos[2].PushedAt
    /\ filteredRepos = <<repos[2], repos[1]>>

\* the one arrangement a stable sort of s would produce
StableOrder(s, list) ==
    LET n == Len(s)
        Before(i, j) == \/ RepoLess(s[i], s[j], list)
                        \/ ~RepoLess(s[j], s[i], list) /\ i < j
    IN  [k \in 1..n |->
            s[CHOOSE i \in 1..n :
                Cardinality({j \in 1..n : Before(j, i)}) = k - 1]]

(***************************************************************************)
(* C4: the ordering stage is stable: records the comparator treats as      *)
(* equal keep the relative order they had before the sort.                 *)
(***************************************************************************)
C4_Stable ==
    pc = "load_contact" => filteredRepos = StableOrder(repos, priorityList)

IsPage(k) ==
    /\ responses[k].kind = "response"
    /\ responses[k].status = 200
    /\ responses[k].body.array

RECURSIVE PagesUpTo(_)
PagesUpTo(k) ==
    IF k = 0 THEN <<>> ELSE PagesUpTo(k - 1) \o responses[k].body.items

InFetch == pc \in {"fetch_send", "fetch_wait"}

\* fetchRepositories has returned without an error
FetchReturned ==
    /\ requests # <<>>
    /\ ~InFetch
    /\ err.kind \notin {"transport", "status", "decode"}

(***************************************************************************)
(* C6: fetchRepositories asks for the pages 1, 2, 3, ... with 100 records  *)
(* per page, returns as soon as a page holds fewer than 100 records (an    *)
(* empty page too) without a further request, and returns the pages        *)
(* received, concatenated in page order.                                   *)
(***************************************************************************)
C6_Pagination ==
    /\ \A k \in DOMAIN requests :
          requests[k].page = k /\ requests[k].per_page = 100
    /\ Len(responses) <= Len(requests)
    /\ Len(requests) <= Len(responses) + 1
    /\ \A k \in DOMAIN responses :
          IsPage(k) /\ Len(responses[k].body.items) < 100 =>
              /\ k = Len(requests)
              /\ ~InFetch
              /\ repos = PagesUpTo(k)
    /\ FetchReturned =>
          /\ \A k \in DOMAIN responses : IsPage(k)
          /\ Len(responses[Len(responses)].body.items) < 100
          /\ repos = PagesUpTo(Len(responses))

\* a full page, then an empty page: two requests, one hundred records
C6_Witness ==
    /\ pc = "filter"
    /\ Len(requests) = 2
    /\ Len(responses[1].body.items) = 100
    /\ responses[2].body.items = <<>>
    /\ Len(repos) = 100

(***************************************************************************)
(* C7: when the answer to a page request, the first or a later one, has a  *)
(* status other than success, fetchRepositories fails with an error that   *)
(* carries the status code and the body, returns no records, and asks for  *)
(* no further page.                                                        *)
(***************************************************************************)
C7_StatusFailure ==
    \A k \in DOMAIN responses :
        responses[k].kind = "response" /\ responses[k].status # 200 =>
            /\ k = Len(responses)
            /\ Len(requests) = k
            /\ err.kind = "status"
            /\ err.code = responses[k].status
            /\ err.body = responses[k].body
            /\ repos = <<>>
            /\ pc = "exit"
            /\ exitCode = 1

\* the second page is refused after a full first page was gathered
C7_Witness ==
    /\ Len(responses) = 2
    /\ responses[2].kind = "response"
    /\ responses[2].status = 403
    /\ responses[2].body.text = "rate limit exceeded"
    /\ Len(allRepos) = 100
    /\ pc = "exit"

(***************************************************************************)
(* C8: a failure to read the exclusion, priority, AI-credit or contact     *)
(* file, or a failure of the fetch, ends the run with a nonzero status and *)
(* leaves the output file neither created nor truncated; the output file   *)
(* is opened only after every input list was read and the fetch succeeded. *)
(***************************************************************************)
C8_NoOutputOnFatalError ==
    /\ err.kind \in {"open", "scan", "transport", "status", "decode"} =>
          /\ pc = "exit"
          /\ exitCode = 1
          /\ outFile = Untouched
    /\ outFile # Untouched =>
          /\ \A p \in Paths : args[FlagOf(p)] # "" => fs[p].err = "none"
          /\ excludeList = loadTextFile(fs, args.exclude).lines
          /\ priorityList = loadTextFile(fs, args.priority).lines
          /\ aiCredits = loadAICredits(fs, args.aiCredits).credits
          /\ contactInfo = loadTextFile(fs, args.contact).lines
          /\ FetchReturned
          /\ pc \in {"execute", "exit"}

\* the contact file cannot be read, after the fetch, the filter and the sort
C8_Witness ==
    /\ pc = "exit"
    /\ exitCode = 1
    /\ fs["contact.txt"].err = "open"
    /\ Len(filteredRepos) > 0
    /\ outFile = Untouched

(***************************************************************************)
(* The enrichment stage.  The program under src/ (v1.0.2) has no release   *)
(* lookup; ChangeLog.md records it for later versions.  This part follows  *)
(* the specification, sections 4.1, 4.3, 4.5 and 5: between the filter and *)
(* the ordering, one lookup per record, one at a time; a probe that fails  *)
(* on too many redirects is repeated once with the heavier method; a       *)
(* success status means a release, not-found means none, anything else is  *)
(* a failure that is reported as a warning and leaves the flag false.  The *)
(* fixed pause between lookups takes time only and is not modelled.        *)
(***************************************************************************)
\* longest record list of the enrichment specification
MaxEnrich == 2

StatusNotFound == 404

Status(code) == [kind |-> "status", status |-> code]
Redirects == [kind |-> "redirects", status |-> 0]
Timeout == [kind |-> "timeout", status |-> 0]
Pending == [kind |-> "pending", status |-> 0]

LookupAnswers == {Status(StatusOK), Status(StatusNotFound), Status(500), Redirects, Timeout}

\* the answers the lookup in flight may get: the repositories of an account
\* of a full page or more have no release and their lookups do not fail
LookupAnswersNow ==
    IF Len(filteredRepos) >= perPage THEN {Status(StatusNotFound)} ELSE LookupAnswers

\* a variant that takes every status but success for a failure
ReleaseOutcomeStrict(ans) ==
    IF ans.kind = "status" /\ ans.status = StatusOK
    THEN [has |-> TRUE, failed |-> FALSE]
    ELSE [has |-> FALSE, failed |-> TRUE]

\* hasPublishedRelease: what the final answer of a lookup means
ReleaseOutcome(ans) ==
    IF ans.kind = "status" /\ ans.status = StatusOK
    THEN [has |-> TRUE, failed |-> FALSE]
    ELSE IF ans.kind = "status" /\ ans.status = StatusNotFound
         THEN [has |-> FALSE, failed |-> FALSE]
         ELSE [has |-> FALSE, failed |-> TRUE]

Lookup(i, name, method) ==
    [idx |-> i, name |-> name, method |-> method, answer |-> Pending]

EnrichRepo(name, updated) ==
    [Name |-> name, UpdatedAt |-> updated, PushedAt |-> updated,
     HasReleases |-> FALSE]

EnrichPool ==
    {EnrichRepo(<<"x">>, 1), EnrichRepo(<<"y">>, 2), EnrichRepo(<<"z">>, 2)}

\* main after the filter loop, with any list of distinctly named records
InitEnrich ==
    /\ Idle
    /\ pc = "enrich"
    /\ repos \in {l \in SeqsUpTo(EnrichPool, MaxEnrich) :
                    \A i, j \in DOMAIN l : l[i].Name = l[j].Name => i = j}
    /\ allRepos = repos
    /\ excludeList = <<>>
    /\ priorityList \in {<<>>, << <<"Z">> >>}
    /\ filteredRepos = repos

\* the lightweight probe for the next record
EnrichProbe ==
    /\ pc = "enrich"
    /\ enrichIdx + 1 <= Len(filteredRepos)
    /\ enrichIdx' = enrichIdx + 1
    /\ lookups' = Append(lookups,
                         Lookup(enrichIdx', filteredRepos[enrichIdx'].Name, "HEAD"))
    /\ pc' = "enrich_wait"
    /\ UNCHANGED <<args, fs, exitCode, stdout, listVars, fetchVars, err, repos,
                   filteredRepos, outFile, warnings, reordered>>

\* a variant that gives the run up when a lookup fails
EnrichFailedAbort(name, ans) ==
    /\ err' = [kind |-> "lookup"]
    /\ Exit(1, <<Msg("Error checking releases", 0)>>)
    /\ UNCHANGED <<warnings, filteredRepos>>

\* a failed lookup: report it, leave the flag false, go on
EnrichFailed(name, ans) ==
    /\ warnings' = Append(warnings, [name |-> name, answer |-> ans])
    /\ filteredRepos' = [filteredRepos EXCEPT ![enrichIdx].HasReleases = FALSE]
    /\ pc' = "enrich"
    /\ UNCHANGED <<err, exitCode, stdout>>

\* the answer to the lookup in flight
EnrichAnswer ==
    /\ pc = "enrich_wait"
    /\ \E ans \in LookupAnswersNow :
        LET cur == lookups[Len(lookups)]
            answered == [lookups EXCEPT ![Len(lookups)].answer = ans]
        IN  IF ans = Redirects /\ cur.method = "HEAD"
            THEN /\ lookups' = Append(answered, Lookup(cur.idx, cur.name, "GET"))
                 /\ UNCHANGED <<pc, warnings, filteredRepos, err, exitCode, stdout>>
            ELSE /\ lookups' = answered
                 /\ IF ReleaseOutcome(ans).failed
                    THEN EnrichFailed(cur.name, ans)
                    ELSE /\ filteredRepos' =
                               [filteredRepos EXCEPT
                                   ![enrichIdx].HasReleases = ReleaseOutcome(ans).has]
                         /\ pc' = "enrich"
                         /\ UNCHANGED <<warnings, err, exitCode, stdout>>
    /\ UNCHANGED <<args, fs, listVars, fetchVars, repos, outFile, enrichIdx,
                   reordered>>

\* every record was looked up: on to the ordering stage
EnrichDone ==
    /\ pc = "enrich"
    /\ enrichIdx = Len(filteredRepos)
    /\ pc' = "sort"
    /\ UNCHANGED <<args, fs, exitCode, stdout, listVars, fetchVars, err, repos,
                   filteredRepos, outFile, enrichVars, reordered>>

NextEnrich ==
    \/ EnrichProbe
    \/ EnrichAnswer
    \/ EnrichDone
    \/ MainSort
    \/ MainLoadContact
    \/ GenerateCreate
    \/ GenerateExecute

SpecEnrich == InitEnrich /\ [][NextEnrich]_vars

(***************************************************************************)
(* The whole pipeline as the specification sequences it (section 4.5):     *)
(* main of src/main.go with the enrichment stage between its filter loop   *)
(* and its sort.                                                           *)
(***************************************************************************)
\* the records with the has-releases flag at its default
Unflagged(rs) ==
    [i \in DOMAIN rs |->
        [Name |-> rs[i].Name, UpdatedAt |-> rs[i].UpdatedAt,
         PushedAt |-> rs[i].PushedAt, HasReleases |-> FALSE]]

\* the filter loop of main, handing its result to the enrichment stage
PipelineFilter ==
    /\ pc = "filter"
    /\ filteredRepos' = Unflagged(FilterRepos(repos, excludeList))
    /\ stdout' = Append(stdout, Msg("After excluding", Len(filteredRepos')))
    /\ pc' = "enrich"
    /\ UNCHANGED <<args, fs, exitCode, listVars, fetchVars, err, repos, outFile,
                   enrichVars, reordered>>

NextPipeline ==
    \/ MainFlags
    \/ MainLoadExclude
    \/ MainLoadPriority
    \/ MainLoadAICredits
    \/ FetchStart
    \/ FetchSend
    \/ FetchReceive
    \/ PipelineFilter
    \/ EnrichProbe
    \/ EnrichAnswer
    \/ EnrichDone
    \/ MainSort
    \/ MainLoadContact
    \/ GenerateCreate
    \/ GenerateExecute

SpecPipeline == Init /\ [][NextPipeline]_vars

(***************************************************************************)
(* Vocabulary of the enrichment properties                                 *)
(***************************************************************************)
\* the last lookup made for a name
LastLookup(name) ==
    lookups[CHOOSE k \in DOMAIN lookups :
                /\ lookups[k].name = name
                /\ \A h \in DOMAIN lookups : h > k => lookups[h].name # name]

Answered(name) ==
    /\ \E k \in DOMAIN lookups : lookups[k].name = name
    /\ LastLookup(name).answer # Pending

Warned(name) == \E k \in DOMAIN warnings : warnings[k].name = name

\* an answer that is neither "there is a release" nor "there is none"
Failing(ans) ==
    \/ ans.kind \in {"timeout", "redirects"}
    \/ ans.kind = "status" /\ ans.status \notin {200, 404}

Printed(m) == \E k \in DOMAIN stdout : stdout[k].msg = m

(***************************************************************************)
(* C9: when the release lookup of one repository fails, its has-releases   *)
(* flag is false, every other record's flag is what its own lookup says,   *)
(* the stage does not abort, and the run goes on to the ordering and the   *)
(* render steps.                                                           *)
(***************************************************************************)
C9_EnrichmentIsolation ==
    /\ \A i \in DOMAIN filteredRepos :
          LET r == filteredRepos[i]
          IN  IF Answered(r.Name)
              THEN LET a == LastLookup(r.Name).answer
                   IN  /\ r.HasReleases = (a = Status(200))
                       /\ Failing(a) => ~r.HasReleases /\ Warned(r.Name)
              ELSE ~r.HasReleases
    /\ err.kind # "lookup"
    /\ pc = "exit" =>
          /\ \A i \in DOMAIN filteredRepos : Answered(filteredRepos[i].Name)
          /\ Printed("Generating README")
    /\ pc # "exit" => ENABLED NextEnrich

\* the first lookup failed, the second found a release, the README is written
C9_Witness ==
    /\ pc = "exit"
    /\ exitCode = 0
    /\ outFile.state = "written"
    /\ Len(repos) = 2
    /\ Failing(LastLookup(repos[1].Name).answer)
    /\ LastLookup(repos[2].Name).answer = Status(200)
    /\ \E i, j \in DOMAIN outFile.data.Repos :
          /\ outFile.data.Repos[i].Repository.Name = repos[1].Name
          /\ ~outFile.data.Repos[i].Repository.HasReleases
          /\ outFile.data.Repos[j].Repository.Name = repos[2].Name
          /\ outFile.data.Repos[j].Repository.HasReleases

(***************************************************************************)
(* C10: a not-found status of the release lookup is an answer and not a    *)
(* failure: the flag is false and nothing is reported for the record; of   *)
(* the status codes only the unexpected ones are failures.                 *)
(***************************************************************************)
C10_NotFoundIsAnAnswer ==
    /\ \A i \in DOMAIN filteredRepos :
          LET r == filteredRepos[i]
          IN  Answered(r.Name) =>
                  LET a == LastLookup(r.Name).answer
                  IN  /\ a = Status(404) => ~r.HasReleases /\ ~Warned(r.Name)
                      /\ a.kind = "status" =>
                            (Warned(r.Name) <=> a.status \notin {200, 404})
    /\ err.kind # "lookup"

\* the only record is answered not-found: no warning, flag false, run done
C10_Witness ==
    /\ pc = "exit"
    /\ exitCode = 0
    /\ Len(filteredRepos) = 1
    /\ LastLookup(filteredRepos[1].Name).answer = Status(404)
    /\ ~filteredRepos[1].HasReleases
    /\ warnings = <<>>

(***************************************************************************)
(* Vocabulary of the pipeline properties                                   *)
(***************************************************************************)
\* the lookups that have no answer yet
PendingLookups == {k \in DOMAIN lookups : lookups[k].answer = Pending}

\* page requests and lookups that have no answer yet
Outstanding == (Len(requests) - Len(responses)) + Cardinality(PendingLookups)

(***************************************************************************)
(* C11: at every point of a run at most one request, page fetch or release *)
(* lookup, is outstanding, and page k+1 is asked for only after the answer *)
(* to the request for page k was received and decoded into records.        *)
(***************************************************************************)
C11_OneRequestAtATime ==
    /\ Len(responses) <= Len(requests)
    /\ Outstanding <= 1
    /\ \A k \in PendingLookups : k = Len(lookups) /\ pc = "enrich_wait"
    /\ Len(requests) > Len(responses) => pc = "fetch_wait"
    /\ \A k \in DOMAIN requests :
          k > 1 =>
              /\ k - 1 \in DOMAIN responses
              /\ IsPage(k - 1)
              /\ Len(allRepos) >= Len(PagesUpTo(k - 1))
              /\ SubSeq(allRepos, 1, Len(PagesUpTo(k - 1))) = PagesUpTo(k - 1)

\* two pages were fetched one after the other and a release lookup is out
C11_Witness ==
    /\ pc = "enrich_wait"
    /\ Len(requests) = 2
    /\ Len(responses) = 2
    /\ Len(responses[1].body.items) = 100
    /\ Outstanding = 1

(***************************************************************************)
(* Vocabulary of the stage properties                                      *)
(***************************************************************************)
AfterSort == pc \in {"load_contact", "generate", "execute", "exit"}

\* the fetched records whose name is, ignoring case, in no exclusion entry
Survivors ==
    LET Stays(r) == ~NameIn(r.Name, excludeList)
    IN  SelectSeq(repos, Stays)

\* list is in priority-then-recency order under the priority list prio
Ordered(list, prio) ==
    \A i, j \in DOMAIN list :
        i < j =>
            LET a == list[i]
                b == list[j]
            IN  /\ NameIn(b.Name, prio) => NameIn(a.Name, prio)
                /\ NameIn(a.Name, prio) /\ NameIn(b.Name, prio) =>
                      FirstPos(a.Name, prio) <= FirstPos(b.Name, prio)
                /\ ~NameIn(a.Name, prio) /\ ~NameIn(b.Name, prio) =>
                      a.UpdatedAt >= b.UpdatedAt

\* the records handed to the template
Rendered == [i \in DOMAIN outFile.data.Repos |-> outFile.data.Repos[i].Repository]

(***************************************************************************)
(* C12: the priority lookup and the exclusion test use the same equality   *)
(* of names: for every name and list getPriorityIndex is >= 0 exactly when *)
(* shouldExcludeRepo is true, the filter drops exactly the records the     *)
(* priority lookup would find in the exclusion list, the sort puts first   *)
(* exactly the records the exclusion test would find in the priority list, *)
(* and an entry that differs from a name only in letter case finds it.     *)
(***************************************************************************)
C12_SameMatching ==
    /\ \A i \in DOMAIN repos :
          \A list \in {excludeList, priorityList} :
              /\ (getPriorityIndex(repos[i].Name, list) >= 0)
                    <=> shouldExcludeRepo(repos[i].Name, list)
              /\ NameIn(repos[i].Name, list) =>
                    getPriorityIndex(repos[i].Name, list) >= 0
    /\ pc = "sort" =>
          filteredRepos =
              Pick(repos, {i \in DOMAIN repos :
                              getPriorityIndex(repos[i].Name, excludeList) < 0})
    /\ pc = "load_contact" =>
          \A i, j \in DOMAIN filteredRepos :
              i < j /\ shouldExcludeRepo(filteredRepos[j].Name, priorityList)
                  => shouldExcludeRepo(filteredRepos[i].Name, priorityList)

\* the priority entry X puts the record x before the record xy
C12_Witness ==
    /\ pc = "load_contact"
    /\ excludeList = <<>>
    /\ priorityList = << <<"y">>, <<"X">> >>
    /\ Len(repos) = 2
    /\ repos[1].Name = <<"x", "y">>
    /\ repos[2].Name = <<"x">>
    /\ filteredRepos = <<repos[2], repos[1]>>

(***************************************************************************)
(* C13: a failure of the render step (the output file cannot be created,   *)
(* or executing the template fails) ends the run with a nonzero status; a  *)
(* run ends with status zero only after the output was written in full,    *)
(* the -version run excepted, which renders nothing.                       *)
(***************************************************************************)
C13_RenderFailureIsFatal ==
    /\ err.kind \in {"create", "execute"} =>
          /\ pc = "exit"
          /\ exitCode = 1
          /\ Printed("Error generating README")
          /\ ~Printed("Done!")
          /\ outFile.state # "written"
    /\ exitCode = 0 =>
          /\ pc = "exit"
          /\ err = NoErr
          /\ IF args.showVersion
             THEN outFile = Untouched /\ stdout = <<Msg("version", 0)>>
             ELSE /\ outFile.state = "written"
                  /\ outFile.data = TemplateData(filteredRepos, contactInfo, aiCredits)
                  /\ Printed("Generating README")
                  /\ stdout[Len(stdout)] = Msg("Done!", 0)
    /\ outFile.state = "written" => exitCode = 0
    /\ pc = "exit" => exitCode \in {0, 1}

\* executing the template fails after the file was created: status 1
C13_Witness ==
    /\ pc = "exit"
    /\ exitCode = 1
    /\ err.kind = "execute"
    /\ outFile.state = "partial"
    /\ Len(filteredRepos) > 0

(***************************************************************************)
(* C14: with an empty user name the run ends with a nonzero status before  *)
(* any input file is read, any request is sent and the output file is      *)
(* touched.                                                                *)
(***************************************************************************)
\* as claimed: whenever the user name is empty
C14_UserRequired ==
    args.user = "" =>
        /\ pc \in {"start", "exit"}
        /\ pc = "exit" => exitCode = 1
        /\ excludeList = <<>> /\ priorityList = <<>>
        /\ aiCredits = EmptyMap /\ contactInfo = <<>>
        /\ err = NoErr
        /\ requests = <<>> /\ responses = <<>>
        /\ outFile = Untouched

\* as the code has it: -version is answered first, with status zero
C14_UserRequiredUnlessVersion ==
    args.user = "" =>
        /\ pc \in {"start", "exit"}
        /\ pc = "exit" =>
              IF args.showVersion
              THEN exitCode = 0 /\ stdout = <<Msg("version", 0)>>
              ELSE /\ exitCode = 1
                   /\ stdout = <<Msg("Error: GitHub username is required", 0),
                                 Msg("usage", 0)>>
        /\ excludeList = <<>> /\ priorityList = <<>>
        /\ aiCredits = EmptyMap /\ contactInfo = <<>>
        /\ err = NoErr
        /\ requests = <<>> /\ responses = <<>>
        /\ outFile = Untouched

\* no -user and no -version: the run is over with status 1, files at hand
C14_Witness ==
    /\ args.user = ""
    /\ ~args.showVersion
    /\ args.exclude # ""
    /\ pc = "exit"
    /\ exitCode = 1

(***************************************************************************)
(* Vocabulary of the stage-order property                                  *)
(***************************************************************************)
\* the records of list without their has-releases flag
Bare(list) ==
    [i \in DOMAIN list |->
        [Name |-> list[i].Name, UpdatedAt |-> list[i].UpdatedAt,
         PushedAt |-> list[i].PushedAt]]

\* every record of the list was looked up and has its answer
EnrichmentComplete ==
    /\ enrichIdx = Len(filteredRepos)
    /\ PendingLookups = {}
    /\ {lookups[k].idx : k \in DOMAIN lookups} = DOMAIN filteredRepos

\* no record of list is less, by the comparator, than the one before it
Sorted(list, prio) ==
    \A k \in 1..(Len(list) - 1) : ~RepoLess(list[k + 1], list[k], prio)

LivePriority ==
    LET Gone(e) == \E i \in DOMAIN repos :
                       /\ NameIn(repos[i].Name, excludeList)
                       /\ Lower(repos[i].Name) = Lower(e)
        Live(e) == ~Gone(e)
    IN  SelectSeq(priorityList, Live)

\* how often r occurs in list
Count(r, list) == Cardinality({i \in DOMAIN list : list[i] = r})

\* the number the run reported after the filter loop
Reported(n) == \E k \in DOMAIN stdout : stdout[k] = Msg("After excluding", n)

(***************************************************************************)
(* C16: exclusion takes precedence over priority: a record whose name is,  *)
(* ignoring case, both in the exclusion list and in the priority list is   *)
(* not in the ordered list nor in the rendered one, and the other records  *)
(* are ordered as they would be had the priority list not named it.        *)
(***************************************************************************)
C16_ExclusionFirst ==
    /\ AfterSort =>
          /\ \A i \in DOMAIN filteredRepos :
                ~NameIn(filteredRepos[i].Name, excludeList)
          /\ \A i \in DOMAIN repos :
                ~NameIn(repos[i].Name, excludeList) =>
                    \E j \in DOMAIN filteredRepos : filteredRepos[j] = repos[i]
          /\ Ordered(filteredRepos, LivePriority)
    /\ outFile.state = "written" =>
          /\ Rendered = filteredRepos
          /\ \A i \in DOMAIN Rendered : ~NameIn(Rendered[i].Name, excludeList)

\* x is excluded by X and named by the priority list [xy, x]: xy, then y
C16_Witness ==
    /\ pc = "exit"
    /\ outFile.state = "written"
    /\ excludeList = << <<"X">> >>
    /\ priorityList = << <<"x", "y">>, <<"x">> >>
    /\ Len(repos) = 3
    /\ repos[1].Name = <<"x">>
    /\ repos[2].Name = <<"y">>
    /\ repos[3].Name = <<"x", "y">>
    /\ Rendered = <<repos[3], repos[2]>>

(***************************************************************************)
(* C17: the ordering stage only permutes: its output holds exactly the     *)
(* records that survived the filter, each as often as before, and the      *)
(* number of records rendered is the number reported after the exclusion.  *)
(***************************************************************************)
C17_OnlyPermutes ==
    /\ AfterSort =>
          /\ Len(filteredRepos) = Len(Survivors)
          /\ \A r \in Range(repos) \cup Range(filteredRepos) :
                Count(r, filteredRepos) = Count(r, Survivors)
          /\ Reported(Len(filteredRepos))
          /\ \A n \in 0..Len(repos) : Reported(n) => n = Len(filteredRepos)
    /\ outFile.state = "written" =>
          /\ Reported(Len(Rendered))
          /\ \A r \in Range(repos) \cup Range(Rendered) :
                Count(r, Rendered) = Count(r, Survivors)

\* a record fetched twice stays twice, behind the newer one that was last
C17_Witness ==
    /\ pc = "exit"
    /\ outFile.state = "written"
    /\ excludeList = << <<"y">> >>
    /\ priorityList = <<>>
    /\ Len(repos) = 3
    /\ repos[1] = repos[2]
    /\ repos[1].UpdatedAt < repos[3].UpdatedAt
    /\ Rendered = <<repos[3], repos[1], repos[2]>>

(***************************************************************************)
(* C18: the comparator of the sort is a strict weak ordering, also under a *)
(* priority list with repeated or case-variant entries: it is irreflexive, *)
(* asymmetric and transitive, and "neither is less than the other" is      *)
(* transitive; the sorted list is therefore the one a stable sort yields,  *)
(* up to the order of records that are equal under the comparator.         *)
(***************************************************************************)
C18_StrictWeakOrder ==
    /\ LET D == DOMAIN repos
           less == Table([i \in D |->
                       Table([j \in D |-> RepoLess(repos[i], repos[j], priorityList)])])
           Less(i, j) == less[i][j]
           Same(i, j) == ~Less(i, j) /\ ~Less(j, i)
       IN  \A a, b, c \in D :
               /\ ~Less(a, a)
               /\ Less(a, b) => ~Less(b, a)
               /\ Less(a, b) /\ Less(b, c) => Less(a, c)
               /\ Same(a, b) /\ Same(b, c) => Same(a, c)
    /\ pc = "load_contact" =>
          /\ \A i, j \in DOMAIN filteredRepos :
                i < j => ~RepoLess(filteredRepos[j], filteredRepos[i], priorityList)
          /\ LET stable == Table(StableOrder(repos, priorityList))
             IN  \A k \in DOMAIN filteredRepos :
                     /\ ~RepoLess(filteredRepos[k], stable[k], priorityList)
                     /\ ~RepoLess(stable[k], filteredRepos[k], priorityList)

\* the entries X and x both name the record x; y, x and another are sorted
C18_Witness ==
    /\ pc = "load_contact"
    /\ priorityList = << <<"X">>, <<"x">>, <<"Y">> >>
    /\ Len(repos) = 3
    /\ ~NameIn(repos[1].Name, priorityList)
    /\ repos[2].Name = <<"y">>
    /\ repos[3].Name = <<"x">>
    /\ filteredRepos = <<repos[3], repos[2], repos[1]>>

====
